---------------------------- MODULE Spec2Model ----------------------------
(***************************************************************************)
(* Model of the invoice parser application: the extraction/normalisation   *)
(* pipeline of app.py (process_and_transform_for_xero), the alternative    *)
(* pipeline of process_invoice.py (process_the_invoice), and the web       *)
(* handlers that persist, edit and export invoices.                        *)
(*                                                                         *)
(* Python values are modelled as follows.                                  *)
(*   str    a TLA+ string; characters are the one-character substrings.    *)
(*   float  an integer number of hundredths (12.5 is 1250).  Every amount  *)
(*          text the model feeds to float() has at most two fractional     *)
(*          digits, so the representation is exact on the model's inputs.  *)
(*   a value that may be None, a str or a float is a record [t, s, n].     *)
(***************************************************************************)
EXTENDS Integers, Sequences, FiniteSets, TLC

VARIABLES
    store,      \* the Invoice table: a sequence of rows, row i has primary key i
    session,    \* the browser session: which of the OAuth keys it holds
    outbox,     \* the last POST made to the accounting API, if any
    last,       \* the last request handled and how it ended
    prev,       \* the Invoice table as it was before the last request
    document,   \* what the extraction service returned to a pipeline call
    raw_data,   \* accumulator of process_and_transform_for_xero after its loop
    xero_data,  \* result of process_and_transform_for_xero
    results_dict, \* result of process_the_invoice
    date_str,   \* the text handed to _normalize_date
    date_out    \* result of _normalize_date

appVars  == <<store, session, outbox, last, prev>>
coreVars == <<document, raw_data, xero_data, results_dict>>
dateVars == <<date_str, date_out>>
vars     == <<store, session, outbox, last, prev, document, raw_data,
              xero_data, results_dict, date_str, date_out>>

----------------------------------------------------------------------------
(* Bounds of the model *)

MaxInvoices == 2
MaxEntities == 3
MaxPad == 1

----------------------------------------------------------------------------
(* Python values *)

PyNone   == [t |-> "none", s |-> "", n |-> 0]
PyStr(x) == [t |-> "str", s |-> x, n |-> 0]
PyFloat(x) == [t |-> "float", s |-> "", n |-> x]

\* Python truthiness of such a value: None, "" and 0.0 are false.
Truthy(v) == \/ v.t = "str" /\ v.s # ""
             \/ v.t = "float" /\ v.n # 0

----------------------------------------------------------------------------
(* Strings *)

Ch(s, i) == SubSeq(s, i, i)

Digits == {"0", "1", "2", "3", "4", "5", "6", "7", "8", "9"}
IsDigit(c) == c \in Digits
\* Python's str.isspace / the regex class \s, on the characters of the model
Spaces == {" ", "\t", "\n", "\r"}
IsSpace(c) == c \in Spaces
\* the regex class [\d.]
AmountChars == Digits \cup {"."}
IsAmountChar(c) == c \in AmountChars

DigitVal(c) ==
    CASE c = "0" -> 0 [] c = "1" -> 1 [] c = "2" -> 2 [] c = "3" -> 3
      [] c = "4" -> 4 [] c = "5" -> 5 [] c = "6" -> 6 [] c = "7" -> 7
      [] c = "8" -> 8 [] c = "9" -> 9

\* int() of a string of ASCII digits
RECURSIVE StrToNat(_)
StrToNat(s) ==
    IF s = "" THEN 0
    ELSE 10 * StrToNat(SubSeq(s, 1, Len(s) - 1)) + DigitVal(Ch(s, Len(s)))

\* str.replace(old, new) for a one-character old
RECURSIVE Replace(_, _, _)
Replace(s, old, new) ==
    IF s = "" THEN ""
    ELSE (IF Ch(s, 1) = old THEN new ELSE Ch(s, 1))
         \o Replace(SubSeq(s, 2, Len(s)), old, new)

\* re.sub(r'[^\d.]', '', s): keep the digits and the dots
RECURSIVE KeepAmountChars(_)
KeepAmountChars(s) ==
    IF s = "" THEN ""
    ELSE (IF IsAmountChar(Ch(s, 1)) THEN Ch(s, 1) ELSE "")
         \o KeepAmountChars(SubSeq(s, 2, Len(s)))

\* str.lstrip() / str.rstrip() / str.strip()
RECURSIVE LStrip(_)
LStrip(s) ==
    IF s # "" /\ IsSpace(Ch(s, 1)) THEN LStrip(SubSeq(s, 2, Len(s))) ELSE s

RECURSIVE RStripSet(_, _)
RStripSet(s, chars) ==
    IF s # "" /\ Ch(s, Len(s)) \in chars
    THEN RStripSet(SubSeq(s, 1, Len(s) - 1), chars) ELSE s

RStrip(s) == RStripSet(s, Spaces)
Strip(s) == RStrip(LStrip(s))

\* first position >= p whose character is not in chars (Len(s) + 1 if none)
RECURSIVE SkipWhile(_, _, _)
SkipWhile(s, p, chars) ==
    IF p <= Len(s) /\ Ch(s, p) \in chars THEN SkipWhile(s, p + 1, chars) ELSE p

----------------------------------------------------------------------------
(* float() *)

\* An unsigned decimal literal: digits, at most one dot, at least one digit.
IsDecimal(s) ==
    LET a == SkipWhile(s, 1, Digits)
        b == IF a <= Len(s) /\ Ch(s, a) = "." THEN a + 1 ELSE a
        c == SkipWhile(s, b, Digits)
    IN  /\ c = Len(s) + 1
        /\ (a - 1) + (c - b) >= 1

\* Value of an unsigned decimal literal, in hundredths (fractional digits
\* beyond the second are dropped; the model's inputs have none).
DecimalValue(s) ==
    LET a == SkipWhile(s, 1, Digits)
        frac == SubSeq(s, a + 1, Len(s))
        f2 == SubSeq(frac \o "00", 1, 2)
    IN  100 * StrToNat(SubSeq(s, 1, a - 1)) + StrToNat(f2)

\* Python float(text): surrounding whitespace is ignored, one sign is
\* allowed.  (Exponents, underscores, inf and nan are outside the alphabet
\* of the model's inputs.)  FloatOK says that no ValueError is raised.
FloatBody(s) ==
    LET u == Strip(s)
    IN  IF u # "" /\ Ch(u, 1) \in {"+", "-"} THEN SubSeq(u, 2, Len(u)) ELSE u
FloatOK(s) == IsDecimal(FloatBody(s))
FloatValue(s) ==
    LET u == Strip(s)
    IN  IF u # "" /\ Ch(u, 1) = "-" THEN 0 - DecimalValue(FloatBody(s))
        ELSE DecimalValue(FloatBody(s))

----------------------------------------------------------------------------
(* Python dicts with string keys: functions on a finite set of strings *)

EmptyDict == [k \in {} |-> PyNone]
DictSet(d, k, v) == [x \in (DOMAIN d) \cup {k} |-> IF x = k THEN v ELSE d[x]]
DictGet(d, k, default) == IF k \in DOMAIN d THEN d[k] ELSE default

\* A dict value of raw_data: a str, or the list of line-item texts
DNone    == [t |-> "none", s |-> "", l |-> <<>>]
DStr(x)  == [t |-> "str", s |-> x, l |-> <<>>]
DList(x) == [t |-> "list", s |-> "", l |-> x]
\* raw_data.get(key, default) read as a str-or-None value
AsPy(v) == IF v.t = "str" THEN PyStr(v.s) ELSE PyNone

----------------------------------------------------------------------------
(* app.py: _parse_line_item *)

\* the optional "$" of \$?
AmountStart(s, p) == IF p <= Len(s) /\ Ch(s, p) = "$" THEN p + 1 ELSE p

\* \s+\$?([\d.]+)\s+\$?([\d.]+) matches at position q.  The character
\* classes of adjacent pieces are disjoint, so the greedy runs are the only
\* way to match.
TailMatches(s, q) ==
    LET a == SkipWhile(s, q, Spaces)
        b == AmountStart(s, a)
        c == SkipWhile(s, b, AmountChars)
        d == SkipWhile(s, c, Spaces)
        e == AmountStart(s, d)
    IN  a > q /\ c > b /\ d > c /\ e <= Len(s) /\ Ch(s, e) \in AmountChars

\* group 3 of a match whose tail starts at q
TailUnit(s, q) ==
    LET b == AmountStart(s, SkipWhile(s, q, Spaces))
    IN  SubSeq(s, b, SkipWhile(s, b, AmountChars) - 1)

\* The ways (\d+)\s+(.*?) can be placed: <<start of group 2, end of group 2
\* + 1>>.  (\d+) is the whole leading run of digits; "." matches no newline.
LineItemMatches(s) ==
    LET d1 == SkipWhile(s, 1, Digits)
        w  == SkipWhile(s, d1, Spaces)
    IN  IF d1 = 1 THEN {}
        ELSE { m \in ((d1 + 1)..w) \X (1..(Len(s) + 1)) :
                 /\ m[2] >= m[1]
                 /\ \A i \in m[1]..(m[2] - 1) : Ch(s, i) # "\n"
                 /\ TailMatches(s, m[2]) }

\* The match the backtracking search finds first: the first \s+ is greedy
\* (longest first), the description lazy (shortest first).
FirstMatch(s) ==
    CHOOSE m \in LineItemMatches(s) :
        \A o \in LineItemMatches(s) :
            m[1] > o[1] \/ (m[1] = o[1] /\ m[2] <= o[2])

NoItem == [Description |-> "", Quantity |-> 0, UnitAmount |-> 0,
           AccountCode |-> ""]

\* kind "none": no match (None); "item": the dict; "ValueError": float() of
\* group 3 raised.
_parse_line_item(line_item_text) ==
    IF LineItemMatches(line_item_text) = {}
    THEN [kind |-> "none", item |-> NoItem]
    ELSE LET s == line_item_text
             m == FirstMatch(s)
             qty == SubSeq(s, 1, SkipWhile(s, 1, Digits) - 1)
             unit == TailUnit(s, m[2])
         IN  IF ~FloatOK(unit) THEN [kind |-> "ValueError", item |-> NoItem]
             ELSE [kind |-> "item",
                   item |-> [Description |-> Strip(SubSeq(s, m[1], m[2] - 1)),
                             Quantity |-> FloatValue(qty),
                             UnitAmount |-> FloatValue(unit),
                             AccountCode |-> "400"]]

----------------------------------------------------------------------------
(* app.py: _safe_float_conversion *)

\* text_value is a str-or-None value; the result is a float (hundredths)
_safe_float_conversion(text_value) ==
    IF ~Truthy(text_value) THEN 0
    ELSE LET cleaned_text == KeepAmountChars(text_value.s)
         IN  IF cleaned_text = "" THEN 0
             ELSE IF FloatOK(cleaned_text) THEN FloatValue(cleaned_text)
             ELSE 0

----------------------------------------------------------------------------
(* datetime.strptime / strftime, for the directives _normalize_date uses *)

UpperCase == "ABCDEFGHIJKLMNOPQRSTUVWXYZ"
LowerCase == "abcdefghijklmnopqrstuvwxyz"
LowerCh(c) ==
    IF \E i \in 1..Len(UpperCase) : Ch(UpperCase, i) = c
    THEN Ch(LowerCase, CHOOSE i \in 1..Len(UpperCase) : Ch(UpperCase, i) = c)
    ELSE c
RECURSIVE Lower(_)
Lower(s) == IF s = "" THEN "" ELSE LowerCh(Ch(s, 1)) \o Lower(SubSeq(s, 2, Len(s)))

\* the text of s from p, at most n characters
Peek(s, p, n) == SubSeq(s, p, IF p + n - 1 <= Len(s) THEN p + n - 1 ELSE Len(s))

MonthNames == <<"january", "february", "march", "april", "may", "june",
                "july", "august", "september", "october", "november",
                "december">>
MonthName(k, directive) ==
    IF directive = "B" THEN MonthNames[k] ELSE SubSeq(MonthNames[k], 1, 3)

NonZeroDigits == Digits \ {"0"}

\* Length matched by the regex of %m at p: 1[0-2]|0[1-9]|[1-9]  (0: none)
MonthLen(s, p) ==
    LET a == Peek(s, p, 1)
        b == IF Len(Peek(s, p, 2)) = 2 THEN Ch(s, p + 1) ELSE ""
    IN  IF a = "1" /\ b \in {"0", "1", "2"} THEN 2
        ELSE IF a = "0" /\ b \in NonZeroDigits THEN 2
        ELSE IF a \in NonZeroDigits THEN 1
        ELSE 0

\* Length matched by the regex of %d at p:
\* 3[0-1]|[1-2]\d|0[1-9]|[1-9]| [1-9]  (0: none)
DayLen(s, p) ==
    LET a == Peek(s, p, 1)
        b == IF Len(Peek(s, p, 2)) = 2 THEN Ch(s, p + 1) ELSE ""
    IN  IF a = "3" /\ b \in {"0", "1"} THEN 2
        ELSE IF a \in {"1", "2"} /\ b \in Digits THEN 2
        ELSE IF a = "0" /\ b \in NonZeroDigits THEN 2
        ELSE IF a \in NonZeroDigits THEN 1
        ELSE IF a = " " /\ b \in NonZeroDigits THEN 2
        ELSE 0

ParseFail == [ok |-> FALSE, p |-> 0, Y |-> 0, m |-> 0, d |-> 0]

\* One directive or literal of a format applied to the parse state st.
\* Every piece is followed by a piece of a disjoint character class (or by
\* the end of the format), so the regex engine's first choice is its only one.
Directive(st, s, tok) ==
    LET p == st.p IN
    IF ~st.ok THEN ParseFail
    ELSE IF tok = "Y" THEN
        IF Len(Peek(s, p, 4)) = 4 /\ SkipWhile(s, p, Digits) >= p + 4
        THEN [st EXCEPT !.p = p + 4, !.Y = StrToNat(SubSeq(s, p, p + 3))]
        ELSE ParseFail
    ELSE IF tok = "m" THEN
        IF MonthLen(s, p) > 0
        THEN [st EXCEPT !.p = p + MonthLen(s, p),
                        !.m = StrToNat(SubSeq(s, p, p + MonthLen(s, p) - 1))]
        ELSE ParseFail
    ELSE IF tok = "d" THEN
        IF DayLen(s, p) > 0
        THEN [st EXCEPT !.p = p + DayLen(s, p),
                        !.d = StrToNat(LStrip(SubSeq(s, p, p + DayLen(s, p) - 1)))]
        ELSE ParseFail
    ELSE IF tok \in {"B", "b"} THEN
        LET hits == { k \in 1..12 :
                        Lower(Peek(s, p, Len(MonthName(k, tok)))) = MonthName(k, tok) }
        IN  IF hits = {} THEN ParseFail
            ELSE LET k == CHOOSE k \in hits : TRUE
                 IN  [st EXCEPT !.p = p + Len(MonthName(k, tok)), !.m = k]
    ELSE IF tok = " " THEN      \* whitespace in a format is the regex \s+
        IF SkipWhile(s, p, Spaces) > p
        THEN [st EXCEPT !.p = SkipWhile(s, p, Spaces)]
        ELSE ParseFail
    ELSE                        \* a literal character
        IF Peek(s, p, 1) = tok THEN [st EXCEPT !.p = p + 1] ELSE ParseFail

RECURSIVE ApplyFormat(_, _, _)
ApplyFormat(st, s, fmt) ==
    IF fmt = <<>> THEN st
    ELSE ApplyFormat(Directive(st, s, Head(fmt)), s, Tail(fmt))

IsLeap(y) == (y % 4 = 0 /\ y % 100 # 0) \/ y % 400 = 0
DaysInMonth(y, m) ==
    IF m = 2 THEN (IF IsLeap(y) THEN 29 ELSE 28)
    ELSE IF m \in {4, 6, 9, 11} THEN 30 ELSE 31

\* datetime.strptime(s, fmt): ok is FALSE where it raises ValueError (no
\* match, unconverted data remains, or no such calendar day).
strptime(s, fmt) ==
    LET st == ApplyFormat([ok |-> TRUE, p |-> 1, Y |-> 0, m |-> 0, d |-> 0], s, fmt)
    IN  IF st.ok /\ st.p = Len(s) + 1 /\ st.Y >= 1
           /\ st.d >= 1 /\ st.d <= DaysInMonth(st.Y, st.m)
        THEN st ELSE ParseFail

DigitStr(n) == Ch("0123456789", n + 1)
Pad2(n) == DigitStr(n \div 10) \o DigitStr(n % 10)
\* strftime("%Y-%m-%d") for the years 1000..9999
strftime(dt) == Pad2(dt.Y \div 100) \o Pad2(dt.Y % 100) \o "-" \o Pad2(dt.m)
                \o "-" \o Pad2(dt.d)

----------------------------------------------------------------------------
(* process_invoice.py: _clean_supplier, _normalize_date, _parse_amount *)

_clean_supplier(name) == RStripSet(Strip(name), {",", ";", ":", "Â", "·"})

\* DateFormats with the month-first slash format tried before the day-first
DateFormatsMonthFirst ==
    << <<"Y", "-", "m", "-", "d">>,
       <<"d", " ", "B", " ", "Y">>,
       <<"d", " ", "b", " ", "Y">>,
       <<"m", "/", "d", "/", "Y">>,
       <<"d", "/", "m", "/", "Y">>,
       <<"d", "-", "m", "-", "Y">>,
       <<"m", "-", "d", "-", "Y">> >>

\* the formats of the for loop, in its order
DateFormats ==
    << <<"Y", "-", "m", "-", "d">>,
       <<"d", " ", "B", " ", "Y">>,
       <<"d", " ", "b", " ", "Y">>,
       <<"d", "/", "m", "/", "Y">>,
       <<"m", "/", "d", "/", "Y">>,
       <<"d", "-", "m", "-", "Y">>,
       <<"m", "-", "d", "-", "Y">> >>

RECURSIVE TryFormats(_, _)
TryFormats(s, fmts) ==
    IF fmts = <<>> THEN s
    ELSE IF strptime(s, Head(fmts)).ok THEN strftime(strptime(s, Head(fmts)))
    ELSE TryFormats(s, Tail(fmts))

_normalize_date(text) ==
    IF text = "" THEN "" ELSE TryFormats(Strip(text), DateFormats)

\* text is a str; the result is a float-or-None value
_parse_amount(text) ==
    IF text = "" THEN PyNone
    ELSE LET cleaned == KeepAmountChars(text)
         IN  IF cleaned = "" THEN PyNone
             ELSE IF FloatOK(cleaned) THEN PyFloat(FloatValue(cleaned))
             ELSE PyNone

----------------------------------------------------------------------------
(* The extraction service.  A call either fails with a message (the client *)
(* raises) or returns a document whose entities are (type_, mention_text). *)

Entity(type, text) == [type_ |-> type, mention_text |-> text]
Extracted(ents) == [failed |-> FALSE, message |-> "", entities |-> ents]
ExtractionFailed(msg) == [failed |-> TRUE, message |-> msg, entities |-> <<>>]

----------------------------------------------------------------------------
(* app.py: process_and_transform_for_xero *)

\* line 78: entity.mention_text.replace('\n', ' ').replace('\r', '')
AppValue(entity) == Replace(Replace(entity.mention_text, "\n", " "), "\r", "")

\* line 79-80: one entity stored into raw_data.  raised: list.append was
\* called on a str (raw_data["line_items"] overwritten by an entity of type
\* "line_items"), an AttributeError.
StoreEntity(raw, entity) ==
    LET field == entity.type_
        value == AppValue(entity)
    IN  IF field = "line_item"
        THEN IF raw["line_items"].t = "list"
             THEN [raised |-> FALSE,
                   raw |-> DictSet(raw, "line_items",
                                   DList(Append(raw["line_items"].l, value)))]
             ELSE [raised |-> TRUE, raw |-> raw]
        ELSE [raised |-> FALSE, raw |-> DictSet(raw, field, DStr(value))]

\* lines 75-80: the loop over document.entities
RECURSIVE AppLoop(_, _)
AppLoop(raw, ents) ==
    IF ents = <<>> THEN [raised |-> FALSE, raw |-> raw]
    ELSE LET r == StoreEntity(raw, Head(ents))
         IN  IF r.raised THEN r ELSE AppLoop(r.raw, Tail(ents))

InitialRawData == DictSet(EmptyDict, "line_items", DList(<<>>))

\* lines 66-81: the try block.  kind "error": the except branch returned
\* {"error": str(e)}.
Accumulate(doc) ==
    IF doc.failed
    THEN [kind |-> "error", error |-> doc.message, raw |-> EmptyDict]
    ELSE LET r == AppLoop(InitialRawData, doc.entities)
         IN  IF r.raised
             THEN [kind |-> "error",
                   error |-> "'str' object has no attribute 'append'",
                   raw |-> EmptyDict]
             ELSE [kind |-> "ok", error |-> "", raw |-> r.raw]

\* the characters of a str, as iterating over it yields them
Chars(s) == [i \in 1..Len(s) |-> Ch(s, i)]

\* line 83: what the generator iterates over: the list, or the characters
\* of the str an entity of type "line_items" left there
LineItemTexts(raw) ==
    LET v == DictGet(raw, "line_items", DList(<<>>))
    IN  IF v.t = "list" THEN v.l ELSE Chars(v.s)

IsItem(r) == r.kind = "item"

\* line 83: [_f for _f in (_parse_line_item(i) for i in ...) if _f]
StructuredLineItems(texts) ==
    LET parsed == [i \in 1..Len(texts) |-> _parse_line_item(texts[i])]
        kept == SelectSeq(parsed, IsItem)
    IN  [i \in 1..Len(kept) |-> kept[i].item]

LineItemRaises(texts) ==
    \E i \in 1..Len(texts) : _parse_line_item(texts[i]).kind = "ValueError"

\* line 84: the payload
XeroInvoice(raw) ==
    [Type |-> "ACCPAY",
     Contact |-> [Name |-> AsPy(DictGet(raw, "supplier_name", DStr("Unknown Supplier")))],
     Date |-> AsPy(DictGet(raw, "invoice_date", DStr("YYYY-MM-DD"))),
     DueDate |-> AsPy(DictGet(raw, "due_date", DStr("YYYY-MM-DD"))),
     LineAmountTypes |-> "Exclusive",
     LineItems |-> StructuredLineItems(LineItemTexts(raw)),
     Status |-> "DRAFT",
     InvoiceNumber |-> AsPy(DictGet(raw, "invoice_id", DNone)),
     CurrencyCode |-> AsPy(DictGet(raw, "currency", DStr("GBP"))),
     Total |-> PyFloat(_safe_float_conversion(AsPy(DictGet(raw, "total_amount", DNone))))]

\* kind "error": {"error": ...} returned; "raise": a ValueError left the
\* function (lines 82-85 are outside the try); "ok": {"Invoices": [...]}.
process_and_transform_for_xero(doc) ==
    LET acc == Accumulate(doc)
    IN  IF acc.kind = "error"
        THEN [kind |-> "error", error |-> acc.error, Invoices |-> <<>>]
        ELSE IF LineItemRaises(LineItemTexts(acc.raw))
        THEN [kind |-> "raise", error |-> "", Invoices |-> <<>>]
        ELSE [kind |-> "ok", error |-> "", Invoices |-> <<XeroInvoice(acc.raw)>>]

----------------------------------------------------------------------------
(* process_invoice.py: process_the_invoice *)

SupplierTypes == {"supplier_name", "supplier", "vendor", "seller"}
DateTypes == {"invoice_date", "date"}

\* line 57
CleanText(entity) ==
    Strip(Replace(Replace(entity.mention_text, "\n", " "), "\r", ""))

\* lines 56-66: one entity stored into results_dict
StoreResult(results, entity) ==
    LET etype == entity.type_
        clean_text == CleanText(entity)
    IN  IF etype = "total_amount"
        THEN DictSet(results, etype, _parse_amount(clean_text))
        ELSE IF etype \in SupplierTypes
        THEN DictSet(results, "supplier_name", PyStr(_clean_supplier(clean_text)))
        ELSE IF etype \in DateTypes
        THEN DictSet(results, "invoice_date", PyStr(_normalize_date(clean_text)))
        ELSE DictSet(results, etype, PyStr(clean_text))

RECURSIVE LibLoop(_, _)
LibLoop(results, ents) ==
    IF ents = <<>> THEN results
    ELSE LibLoop(StoreResult(results, Head(ents)), Tail(ents))

\* kind "error": {"error": str(e)}; "ok": results_dict
process_the_invoice(doc) ==
    IF doc.failed THEN [kind |-> "error", error |-> doc.message, d |-> EmptyDict]
    ELSE [kind |-> "ok", error |-> "", d |-> LibLoop(EmptyDict, doc.entities)]

----------------------------------------------------------------------------
(* json.dumps / json.loads of the payload.  A JSON text is modelled by its *)
(* syntax tree: null, a string literal, a number literal, and so on.       *)

JsonOf(v) ==
    IF v.t = "none" THEN [j |-> "null", s |-> "", n |-> 0]
    ELSE IF v.t = "str" THEN [j |-> "string", s |-> v.s, n |-> 0]
    ELSE [j |-> "number", s |-> "", n |-> v.n]
PyOf(j) ==
    IF j.j = "null" THEN PyNone
    ELSE IF j.j = "string" THEN PyStr(j.s)
    ELSE PyFloat(j.n)

DumpInvoice(inv) ==
    [inv EXCEPT !.Contact = [Name |-> JsonOf(inv.Contact.Name)],
                !.Date = JsonOf(inv.Date),
                !.DueDate = JsonOf(inv.DueDate),
                !.InvoiceNumber = JsonOf(inv.InvoiceNumber),
                !.CurrencyCode = JsonOf(inv.CurrencyCode),
                !.Total = JsonOf(inv.Total)]
LoadInvoice(js) ==
    [js EXCEPT !.Contact = [Name |-> PyOf(js.Contact.Name)],
               !.Date = PyOf(js.Date),
               !.DueDate = PyOf(js.DueDate),
               !.InvoiceNumber = PyOf(js.InvoiceNumber),
               !.CurrencyCode = PyOf(js.CurrencyCode),
               !.Total = PyOf(js.Total)]

\* of the {"Invoices": [...]} dict
json_dumps(invoices) == [i \in 1..Len(invoices) |-> DumpInvoice(invoices[i])]
json_loads(text) == [i \in 1..Len(text) |-> LoadInvoice(text[i])]

----------------------------------------------------------------------------
(* app.py: the Invoice table and the web handlers *)

\* A row as upload_file creates it; status takes the column default.
NewInvoice(id, filename, xero) ==
    LET invoice_details == xero.Invoices[1]
    IN  [id |-> id,
         original_filename |-> filename,
         supplier_name |-> invoice_details.Contact.Name,
         invoice_id |-> invoice_details.InvoiceNumber,
         total_amount |-> invoice_details.Total,
         invoice_date |-> invoice_details.Date,
         status |-> "Pending Review",
         xero_json |-> json_dumps(xero.Invoices)]

\* werkzeug's secure_filename on the model's file names (letters, digits,
\* dots and single inner spaces): whitespace becomes an underscore.
secure_filename(name) == Replace(name, " ", "_")

NoPost == [sent |-> FALSE, invoice |-> 0, json |-> <<>>]
NoDoc == Extracted(<<>>)
NoForm == [k \in {} |-> ""]

\* what the last request was and how it was answered
Answer(op, id, code) ==
    [op |-> op, id |-> id, code |-> code, filename |-> "", doc |-> NoDoc,
     form |-> NoForm, resp |-> 0]

\* Inputs of the handlers
FileNames == {"inv 1.pdf"}
UploadDocs ==
    { Extracted(<<Entity("supplier_name", "Acme Ltd,"),
                  Entity("invoice_id", "INV-7"),
                  Entity("invoice_date", "07/03/2024"),
                  Entity("total_amount", "£123.45"),
                  Entity("line_item", "3 Bolt $1.00 $3.00")>>),
      Extracted(<<Entity("line_item", "1 x 1.2.3 4")>>),
      ExtractionFailed("503 Service Unavailable") }
FormKeys == {"supplier_name", "invoice_id", "invoice_date", "total_amount", "status"}
Form(supplier, number, date, total, status) ==
    [k \in FormKeys |->
        CASE k = "supplier_name" -> supplier
          [] k = "invoice_id" -> number
          [] k = "invoice_date" -> date
          [] k = "total_amount" -> total
          [] k = "status" -> status]
EditForms ==
    { Form("Acme Limited", "INV-70", "2024-03-08", "150.00", "Approved"),
      Form("Zeta GmbH", "Z-1", "2024-04-01", "abc", "Approved"),
      Form("Zeta GmbH", "Z-1", "not a date", "99.90", "Pending Review"),
      [k \in FormKeys \ {"status"} |->
          Form("Omega", "O-1", "2024-05-01", "5", "")[k]] }
\* the status codes the accounting API answers with; 0: the call raised
PostResponses == {200, 400, 0}

\* upload_file, lines 92-111.  method, has_file and filename describe the
\* request; doc is what the extraction service does when it is called.
upload_file(method, has_file, rawname, doc) ==
    /\ Len(store) < MaxInvoices
    /\ prev' = store
    /\ outbox' = NoPost
    /\ UNCHANGED session
    /\ IF method = "GET" THEN
           /\ last' = Answer("upload", 0, 200)
           /\ UNCHANGED store
       ELSE IF ~has_file \/ rawname = "" THEN
           /\ last' = Answer("upload", 0, 302)
           /\ UNCHANGED store
       ELSE LET filename == secure_filename(rawname)
                xero == process_and_transform_for_xero(doc)
                req == [Answer("upload", 0, 302) EXCEPT !.filename = filename,
                                                        !.doc = doc]
            IN  IF xero.kind = "raise" THEN
                    /\ last' = [req EXCEPT !.code = 500]
                    /\ UNCHANGED store
                ELSE IF xero.kind = "error" THEN
                    /\ last' = req
                    /\ UNCHANGED store
                ELSE
                    /\ last' = [req EXCEPT !.id = Len(store) + 1]
                    /\ store' = Append(store, NewInvoice(Len(store) + 1, filename, xero))

\* lines 117-121: the assignments of an edit; they raise where a key is
\* missing (400) or float() fails (500)
EditedInvoice(invoice, form) ==
    [invoice EXCEPT !.supplier_name = PyStr(form["supplier_name"]),
                    !.invoice_id = PyStr(form["invoice_id"]),
                    !.invoice_date = PyStr(form["invoice_date"]),
                    !.total_amount = PyFloat(FloatValue(form["total_amount"])),
                    !.status = form["status"]]

\* invoice_detail, lines 113-124.  An exception leaves the handler before
\* db.session.commit(); the request's session is then discarded, so the
\* table keeps the row as it was.
invoice_detail(invoice_id, method, form) ==
    /\ prev' = store
    /\ outbox' = NoPost
    /\ UNCHANGED session
    /\ LET req == [Answer("edit", invoice_id, 302) EXCEPT !.form = form] IN
       IF invoice_id \notin 1..Len(store) THEN
           /\ last' = [req EXCEPT !.code = 404]
           /\ UNCHANGED store
       ELSE IF method = "GET" THEN
           /\ last' = Answer("edit", invoice_id, 200)
           /\ UNCHANGED store
       ELSE IF \E k \in {"supplier_name", "invoice_id", "invoice_date", "total_amount"} :
                  k \notin DOMAIN form THEN
           /\ last' = [req EXCEPT !.code = 400]
           /\ UNCHANGED store
       ELSE IF ~FloatOK(form["total_amount"]) THEN
           /\ last' = [req EXCEPT !.code = 500]
           /\ UNCHANGED store
       ELSE IF "status" \notin DOMAIN form THEN
           /\ last' = [req EXCEPT !.code = 400]
           /\ UNCHANGED store
       ELSE
           /\ last' = req
           /\ store' = [store EXCEPT ![invoice_id] = EditedInvoice(@, form)]

\* xero_auth, lines 128-133
xero_auth ==
    /\ prev' = store
    /\ outbox' = NoPost
    /\ session' = [session EXCEPT !.oauth_state = TRUE]
    /\ last' = Answer("xero_auth", 0, 302)
    /\ UNCHANGED store

\* callback, lines 135-149.  token_ok: fetch_token returned a token;
\* organisation: the connections hold one of tenantType ORGANISATION.
callback(token_ok, organisation) ==
    /\ prev' = store
    /\ outbox' = NoPost
    /\ UNCHANGED store
    /\ IF ~session.oauth_state \/ ~token_ok THEN
           /\ last' = Answer("callback", 0, 500)
           /\ UNCHANGED session
       ELSE
           /\ last' = Answer("callback", 0, 302)
           /\ session' = [session EXCEPT
                            !.xero_token = TRUE,
                            !.xero_tenant_id = session.xero_tenant_id \/ organisation]

\* StatusAfterPost without the test of the status code
StatusAlwaysExported(status_code, status) == "Exported"

\* lines 170-172: the status of the row after the POST was answered
StatusAfterPost(status_code, status) ==
    IF status_code = 200 THEN "Exported" ELSE status

\* send_to_xero, lines 151-177.  status_code is the API's answer.
send_to_xero(invoice_id, status_code) ==
    /\ prev' = store
    /\ UNCHANGED session
    /\ LET req == Answer("send", invoice_id, 302) IN
       IF ~session.xero_token THEN
           /\ last' = req
           /\ outbox' = NoPost
           /\ UNCHANGED store
       ELSE IF invoice_id \notin 1..Len(store) THEN
           /\ last' = [req EXCEPT !.code = 404]
           /\ outbox' = NoPost
           /\ UNCHANGED store
       ELSE IF ~session.xero_tenant_id THEN
           /\ last' = [req EXCEPT !.code = 500]
           /\ outbox' = NoPost
           /\ UNCHANGED store
       ELSE
           /\ outbox' = [sent |-> TRUE, invoice |-> invoice_id,
                         json |-> json_loads(store[invoice_id].xero_json)]
           /\ IF status_code = 0 THEN
                  /\ last' = [req EXCEPT !.code = 500]
                  /\ UNCHANGED store
              ELSE
                  /\ last' = [req EXCEPT !.resp = status_code]
                  /\ store' = [store EXCEPT ![invoice_id].status =
                                  StatusAfterPost(status_code, @)]

----------------------------------------------------------------------------
(* The web application: requests arrive one at a time, in any order *)

NotRun == [kind |-> "none", error |-> ""]
NoDate == [done |-> FALSE, s |-> ""]

CoreIdle ==
    /\ document = NoDoc
    /\ raw_data = NotRun
    /\ xero_data = NotRun
    /\ results_dict = NotRun
DateIdle ==
    /\ date_str = ""
    /\ date_out = NoDate
AppIdle ==
    /\ store = <<>>
    /\ session = [oauth_state |-> FALSE, xero_token |-> FALSE,
                  xero_tenant_id |-> FALSE]
    /\ outbox = NoPost
    /\ last = Answer("none", 0, 0)
    /\ prev = <<>>

Init == AppIdle /\ CoreIdle /\ DateIdle

\* the requests /upload can get: a GET, a POST without the file part, a
\* POST whose file has no name, a POST of a named file
UploadRequests ==
    { <<"GET", FALSE, "">>, <<"POST", FALSE, "">>, <<"POST", TRUE, "">> }
        \cup { <<"POST", TRUE, f>> : f \in FileNames }
EditRequests ==
    { <<"GET", NoForm>> } \cup { <<"POST", f>> : f \in EditForms }

Upload ==
    /\ \E req \in UploadRequests, doc \in UploadDocs :
          upload_file(req[1], req[2], req[3], doc)
    /\ UNCHANGED <<coreVars, dateVars>>

Edit ==
    /\ \E invoice_id \in 1..MaxInvoices, req \in EditRequests :
          invoice_detail(invoice_id, req[1], req[2])
    /\ UNCHANGED <<coreVars, dateVars>>

XeroAuth == xero_auth /\ UNCHANGED <<coreVars, dateVars>>

Callback ==
    /\ \E token_ok \in BOOLEAN, organisation \in BOOLEAN :
          callback(token_ok, organisation)
    /\ UNCHANGED <<coreVars, dateVars>>

SendToXero ==
    /\ \E invoice_id \in 1..MaxInvoices, status_code \in PostResponses :
          send_to_xero(invoice_id, status_code)
    /\ UNCHANGED <<coreVars, dateVars>>

Next == Upload \/ Edit \/ XeroAuth \/ Callback \/ SendToXero

Spec == Init /\ [][Next]_vars

----------------------------------------------------------------------------
(* The two pipelines applied to one extraction result *)

EntityPool ==
    { Entity("supplier_name", "Acme Ltd,"),
      Entity("supplier", "Beta\nCo;"),
      Entity("vendor", " Gamma "),
      Entity("total_amount", "£123.45"),
      Entity("total_amount", "12.34.56"),
      Entity("total_amount", "abc"),
      Entity("total_amount", "0.00"),
      Entity("total_amount", ""),
      Entity("invoice_date", "07/03/2024"),
      Entity("currency", "USD"),
      Entity("line_item", "3 Bolt $1.00 $3.00"),
      Entity("line_item", "2 Widget A\n$10.00 $20.00"),
      Entity("line_item", "bad line"),
      Entity("line_item", "1 x 1.2.3 4"),
      Entity("line_items", "x") }

EntitySeqs == UNION { [1..n -> EntityPool] : n \in 0..MaxEntities }

NormalizeDocs ==
    { Extracted(ents) : ents \in EntitySeqs }
        \cup { ExtractionFailed("503 Service Unavailable") }

InitNormalize ==
    /\ AppIdle /\ DateIdle
    /\ document \in NormalizeDocs
    /\ raw_data = NotRun
    /\ xero_data = NotRun
    /\ results_dict = NotRun

\* app.py's pipeline; raw_data is its accumulator when the loop has ended
Transform ==
    /\ xero_data' = process_and_transform_for_xero(document)
    /\ raw_data' = Accumulate(document)
    /\ UNCHANGED <<document, results_dict, appVars, dateVars>>

\* process_invoice.py's pipeline
Process ==
    /\ results_dict' = process_the_invoice(document)
    /\ UNCHANGED <<document, raw_data, xero_data, appVars, dateVars>>

NextNormalize == Transform \/ Process

SpecNormalize == InitNormalize /\ [][NextNormalize]_vars

----------------------------------------------------------------------------
(* _normalize_date applied to one text *)

RECURSIVE Blanks(_)
Blanks(n) == IF n = 0 THEN "" ELSE " " \o Blanks(n - 1)

\* Texts of three tokens and two separators, with MaxPad or fewer blanks
\* around them: numeric ones, and ones with a month name in the middle.
NumberTokens == {"3", "12", "13", "31", "29", "02", "2024", "2023"}
DayTokens == {"7", "07", "31"}
NameTokens == {"March", "mar", "FEB", "Sept"}
DateSeps == {"/", "-", " "}
DateBodies ==
    { a \o s1 \o b \o s2 \o c :
        a \in NumberTokens, b \in NumberTokens, c \in NumberTokens,
        s1 \in DateSeps, s2 \in DateSeps }
      \cup { d \o s1 \o m \o s2 \o "2024" :
               d \in DayTokens, m \in NameTokens,
               s1 \in DateSeps, s2 \in DateSeps }
      \cup {"not a date", "0000-01-01"}
DateTexts ==
    { Blanks(pad) \o body \o Blanks(pad) : pad \in 0..MaxPad, body \in DateBodies }
        \cup {""}

InitDate ==
    /\ AppIdle /\ CoreIdle
    /\ date_str \in DateTexts
    /\ date_out = NoDate

NormalizeDate ==
    /\ ~date_out.done
    /\ date_out' = [done |-> TRUE, s |-> _normalize_date(date_str)]
    /\ UNCHANGED <<date_str, appVars, coreVars>>

NextDate == NormalizeDate

SpecDate == InitDate /\ [][NextDate]_vars

----------------------------------------------------------------------------
(* Properties of the web application (specification Spec) *)

\* the header fields of a posted payload are those of the stored row
PostedMatches(row, payload) ==
    /\ payload[1].Contact.Name = row.supplier_name
    /\ payload[1].InvoiceNumber = row.invoice_id
    /\ payload[1].Date = row.invoice_date
    /\ payload[1].Total = row.total_amount

\* C1: whenever send_to_xero has posted an invoice and the accounting API
\* has answered, the supplier name,
\* invoice number, date and total of the posted payload are the values the
\* row holds, that is, those of the most recent reviewer edit.
C1_PostedRecordIsCorrectedRecord ==
    (last.op = "send" /\ outbox.sent /\ last.resp # 0)
        => PostedMatches(store[outbox.invoice], outbox.json)

\* C2: after an upload whose extraction call failed, the table holds one
\* more row, and it is the row of the uploaded file.
C2_FailedExtractionStillPersisted ==
    (last.op = "upload" /\ last.doc.failed)
        => /\ Len(store) = Len(prev) + 1
           /\ store[Len(store)].original_filename = last.filename

MalformedAmount(text) == ~FloatOK(text)

FmtISO      == <<"Y", "-", "m", "-", "d">>
FmtDayMonthName == <<"d", " ", "B", " ", "Y">>
FmtDayMonthAbbr == <<"d", " ", "b", " ", "Y">>
FmtDMYSlash == <<"d", "/", "m", "/", "Y">>
FmtMDYSlash == <<"m", "/", "d", "/", "Y">>
FmtDMYDash  == <<"d", "-", "m", "-", "Y">>
FmtMDYDash  == <<"m", "-", "d", "-", "Y">>
\* the order of the patterns as the specification lists it
ListedOrder == <<FmtISO, FmtDayMonthName, FmtDayMonthAbbr, FmtDMYSlash,
                 FmtMDYSlash, FmtDMYDash, FmtMDYDash>>
ValidUnder(s, fmt) == strptime(s, fmt).ok
MalformedDate(text) ==
    \A k \in 1..Len(ListedOrder) : ~ValidUnder(Strip(text), ListedOrder[k])

\* C3: after an edit of an existing invoice whose submitted amount (or
\* date) is malformed, the submitted supplier name, invoice id and status
\* are stored and the malformed field keeps its previous value.
C3_MalformedFieldIgnoredRestStored ==
    (/\ last.op = "edit"
     /\ last.id \in 1..Len(prev)
     /\ DOMAIN last.form = FormKeys
     /\ \/ MalformedAmount(last.form["total_amount"])
        \/ MalformedDate(last.form["invoice_date"]))
        => /\ store[last.id].supplier_name = PyStr(last.form["supplier_name"])
           /\ store[last.id].invoice_id = PyStr(last.form["invoice_id"])
           /\ store[last.id].status = last.form["status"]
           /\ MalformedAmount(last.form["total_amount"])
                => store[last.id].total_amount = prev[last.id].total_amount
           /\ MalformedDate(last.form["invoice_date"])
                => store[last.id].invoice_date = prev[last.id].invoice_date

\* C10: send_to_xero changes the table at most in the status of the invoice
\* it was asked to send, which becomes 'Exported', and only when the POST
\* was made and answered 200; without a token in the session no POST is
\* made, and with any other answer the table is as it was.
C10_SendOnlyMarksExportedAfter200 ==
    last.op = "send"
        => /\ Len(store) = Len(prev)
           /\ \A i \in 1..Len(store) :
                \/ store[i] = prev[i]
                \/ /\ i = last.id
                   /\ store[i] = [prev[i] EXCEPT !.status = "Exported"]
                   /\ outbox.sent /\ outbox.invoice = i
                   /\ last.resp = 200
           /\ ~session.xero_token => (~outbox.sent /\ store = prev)
           /\ last.resp # 200 => store = prev

\* C10 witness: a POST answered 200 has turned a row to 'Exported'
C10_Witness_ExportedAfter200 ==
    /\ last.op = "send" /\ outbox.sent /\ last.resp = 200
    /\ last.id \in 1..Len(store)
    /\ store # prev
    /\ store[last.id].status = "Exported"

----------------------------------------------------------------------------
(* Properties of the pipelines (specification SpecNormalize) *)

\* the texts of the entities of one type, in input order, as f cleans them
RECURSIVE AppTextsOf(_, _)
AppTextsOf(ents, type) ==
    IF ents = <<>> THEN <<>>
    ELSE (IF Head(ents).type_ = type THEN <<AppValue(Head(ents))>> ELSE <<>>)
         \o AppTextsOf(Tail(ents), type)
RECURSIVE LibTextsOf(_, _)
LibTextsOf(ents, type) ==
    IF ents = <<>> THEN <<>>
    ELSE (IF Head(ents).type_ = type THEN <<CleanText(Head(ents))>> ELSE <<>>)
         \o LibTextsOf(Tail(ents), type)

TypesIn(ents) == { ents[i].type_ : i \in 1..Len(ents) }
LastOf(seq) == seq[Len(seq)]

\* the line-item texts a result of process_the_invoice holds
LibLineItems(d) ==
    IF "line_item" \in DOMAIN d THEN <<d["line_item"].s>> ELSE <<>>

\* C4: when a pipeline has consumed an entity sequence, its line-item
\* sequence holds the text of every line_item entity, in order, and the
\* accumulator holds, for every other field type, the text of the last
\* entity of that type.
C4_LineItemsAppendedOthersLastWins ==
    /\ (raw_data.kind # "none" /\ ~document.failed)
         => /\ raw_data.kind = "ok"
            /\ LineItemTexts(raw_data.raw)
                 = AppTextsOf(document.entities, "line_item")
            /\ \A type \in TypesIn(document.entities) \ {"line_item"} :
                 DictGet(raw_data.raw, type, DNone)
                    = DStr(LastOf(AppTextsOf(document.entities, type)))
    /\ (results_dict.kind # "none" /\ ~document.failed)
         => LibLineItems(results_dict.d)
              = LibTextsOf(document.entities, "line_item")

\* the parse results of the texts that match the line-item pattern
RECURSIVE ParsedMatching(_)
ParsedMatching(texts) ==
    IF texts = <<>> THEN <<>>
    ELSE (IF LineItemMatches(Head(texts)) # {}
          THEN <<_parse_line_item(Head(texts)).item>> ELSE <<>>)
         \o ParsedMatching(Tail(texts))

\* C5: for any entity sequence the pipeline yields a payload whose
\* LineItems are the parse results of the matching line_item texts, in
\* input order, each with account code "400".
C5_LineItemsAreMatchingTextsInOrder ==
    (xero_data.kind # "none" /\ ~document.failed)
        => /\ xero_data.kind = "ok"
           /\ xero_data.Invoices[1].LineItems
                = ParsedMatching(AppTextsOf(document.entities, "line_item"))
           /\ \A i \in 1..Len(xero_data.Invoices[1].LineItems) :
                xero_data.Invoices[1].LineItems[i].AccountCode = "400"

CountDots(s) == Cardinality({ i \in 1..Len(s) : Ch(s, i) = "." })
HasDigit(s) == \E i \in 1..Len(s) : IsDigit(Ch(s, i))
\* absent, empty, or not a number once only digits and dots are kept
NoAmountIn(texts) ==
    \/ texts = <<>>
    \/ CountDots(LastOf(texts)) > 1
    \/ ~HasDigit(LastOf(texts))

\* C6: the total is null, never 0.0, whenever the total text is absent,
\* empty or unparseable after stripping; 0.0 only for a text that parses to
\* zero.
C6_UnparseableTotalIsNull ==
    /\ xero_data.kind = "ok"
         => LET texts == AppTextsOf(document.entities, "total_amount")
                total == xero_data.Invoices[1].Total
            IN  /\ NoAmountIn(texts) => total = PyNone
                /\ total = PyFloat(0) => ~NoAmountIn(texts)
    /\ results_dict.kind = "ok"
         => LET texts == LibTextsOf(document.entities, "total_amount")
                total == DictGet(results_dict.d, "total_amount", PyNone)
            IN  /\ NoAmountIn(texts) => total = PyNone
                /\ total = PyFloat(0) => ~NoAmountIn(texts)

Swap(seq, i) ==
    [k \in 1..Len(seq) |->
        IF k = i THEN seq[i + 1] ELSE IF k = i + 1 THEN seq[i] ELSE seq[k]]

\* C7: a fixed precedence among the supplier field types decides the
\* supplier name, independent of the order in which their entities appear:
\* exchanging two neighbouring entities of different supplier types leaves
\* the supplier name as it is.
C7_SupplierIndependentOfInputOrder ==
    results_dict.kind = "ok"
        => \A i \in 1..(Len(document.entities) - 1) :
             (/\ document.entities[i].type_ \in SupplierTypes
              /\ document.entities[i + 1].type_ \in SupplierTypes
              /\ document.entities[i].type_ # document.entities[i + 1].type_)
                => DictGet(process_the_invoice(
                             Extracted(Swap(document.entities, i))).d,
                           "supplier_name", PyNone)
                     = DictGet(results_dict.d, "supplier_name", PyNone)

\* C8: normalising the empty entity sequence does not raise and yields an
\* empty supplier name, an empty date, a null total, no line items and the
\* default currency code.
C8_EmptySequenceYieldsEmptyRecord ==
    (xero_data.kind # "none" /\ document = Extracted(<<>>))
        => /\ xero_data.kind = "ok"
           /\ xero_data.Invoices[1].Contact.Name = PyStr("")
           /\ xero_data.Invoices[1].Date = PyStr("")
           /\ xero_data.Invoices[1].Total = PyNone
           /\ xero_data.Invoices[1].LineItems = <<>>
           /\ xero_data.Invoices[1].CurrencyCode = PyStr("GBP")

----------------------------------------------------------------------------
(* Properties of _normalize_date (specification SpecDate) *)

\* C9: the result is decided by the first pattern, in the listed order,
\* under which the trimmed text is valid; in particular a text valid under
\* both DD/MM/YYYY and MM/DD/YYYY is read as DD/MM/YYYY; a text valid under
\* no pattern is returned trimmed and otherwise unchanged.
C9_FirstListedPatternWins ==
    date_out.done
        => LET s == Strip(date_str) IN
           /\ \A k \in 1..Len(ListedOrder) :
                (/\ ValidUnder(s, ListedOrder[k])
                 /\ \A j \in 1..(k - 1) : ~ValidUnder(s, ListedOrder[j]))
                    => date_out.s = strftime(strptime(s, ListedOrder[k]))
           /\ (ValidUnder(s, FmtDMYSlash) /\ ValidUnder(s, FmtMDYSlash))
                => date_out.s = strftime(strptime(s, FmtDMYSlash))
           /\ MalformedDate(date_str) => date_out.s = s

\* C9 witness: a text valid under both slash patterns, with different
\* readings, has been normalised
C9_Witness_AmbiguousSlashDate ==
    /\ date_out.done
    /\ ValidUnder(Strip(date_str), FmtDMYSlash)
    /\ ValidUnder(Strip(date_str), FmtMDYSlash)
    /\ strptime(Strip(date_str), FmtDMYSlash)
         # strptime(Strip(date_str), FmtMDYSlash)
    /\ date_str # Strip(date_str)

============================================================================
